---------------------------- MODULE Spec2Model ----------------------------
(***************************************************************************)
(* Model of modules/tautulli_connector.py: the module-level index table    *)
(* session_ids, TautulliConnector.refresh_data (one poll) and              *)
(* TautulliConnector.stop_stream (one terminate command).                  *)
(*                                                                         *)
(* refresh_data and stop_stream are modelled statement by statement at the *)
(* points where they read or write session_ids.  Spec runs the two         *)
(* handlers one at a time (each call runs to completion before the next    *)
(* starts); SpecConc lets a terminate command interleave with a poll in    *)
(* flight.                                                                 *)
(***************************************************************************)
EXTENDS Integers, Sequences, FiniteSets, TLC

\* Longest session list of a payload.
MaxSessions == 2

VARIABLES
    session_ids,      \* the module-level dict: index -> session id string
    pollpc,           \* refresh_data: "idle", "loop", "done"
    data,             \* refresh_data: payload returned by api.activity()
    idx,              \* refresh_data: number of sessions the for loop has taken
    count,            \* refresh_data: local count
    session_details,  \* refresh_data: local list of TautulliStreamInfo
    result,           \* refresh_data: the returned tuple, or the raised exception
    prevTable,        \* history: session_ids when the current/last poll began
    repeat,           \* history: this poll received the payload of the poll before it
    lastPoll,         \* history: how the most recently completed poll ended:
                      \* "ok", "empty" (falsy payload), "keyerror", "transport"
                      \* (api.activity raised), "status" (server_status raised),
                      \* "keyerror_analytics" / "valueerror_analytics"
                      \* (analytics.event raised in that handler)
    termpc,           \* stop_stream: "idle", "checked", "logged", "done"
    stream_number,    \* stop_stream: argument
    termSeen,         \* history: session_ids as read by the membership test
    request,          \* terminate_session request issued by this command
    termResult,       \* stop_stream: returned message, or the raised exception
    probe             \* a derived property of a session or an activity that is
                      \* read on its own: its input and, once read, its value

pollvars == <<pollpc, data, idx, count, session_details, result, prevTable,
              repeat, lastPoll>>
termvars == <<termpc, stream_number, termSeen, request, termResult>>
vars == <<session_ids, pollvars, termvars, probe>>

-----------------------------------------------------------------------------
(* Values of the raw payload *)

StrId(s) == [kind |-> "str", s |-> s, n |-> 0]
IntId(n) == [kind |-> "int", s |-> "", n |-> n]

\* One field of a raw session record: present with a value, absent (reading
\* it raises KeyError), or unreadable (reading it raises ValueError).
Present(v) == [st |-> "ok", val |-> v]
Absent(v) == [st |-> "absent", val |-> v]
Unreadable(v) == [st |-> "unreadable", val |-> v]

\* A raw session record: the fields refresh_data and the title of a stream
\* read.  RawSession gives the media fields of a plain movie; Media sets them.
RawSession(sid, dec) ==
    [session_id |-> sid, stream_container_decision |-> dec,
     live |-> FALSE, media_type |-> Present("movie"),
     title |-> Present("T"), full_title |-> Present("F")]

Media(s, live, media_type, title) ==
    [s EXCEPT !.live = live, !.media_type = media_type, !.title = title]

SessionRecords ==
    { RawSession(Present(StrId("a")), Present("transcode")),
      \* an episode with no 'title' key
      Media(RawSession(Present(IntId(7)), Present("direct play")),
            FALSE, Present("episode"), Absent("")),
      Media(RawSession(Absent(StrId("")), Present("direct play")),
            FALSE, Present("episode"), Present("T")),
      Media(RawSession(Unreadable(StrId("")), Present("transcode")),
            TRUE, Present("movie"), Present("T")),
      \* no 'media_type' key
      Media(RawSession(Present(StrId("b")), Absent("")),
            FALSE, Absent(""), Present("T")) }

SeqsUpTo(S, n) == UNION { [1..k -> S] : k \in 0..n }

StreamCounts == {0, 1}

\* api.activity() returned nothing usable (None / empty).
NoData == [truthy |-> FALSE, sessions |-> <<>>, stream_count |-> 0]

Payloads ==
    {NoData} \cup
    { [truthy |-> TRUE, sessions |-> ss, stream_count |-> sc] :
        ss \in SeqsUpTo(SessionRecords, MaxSessions), sc \in StreamCounts }

AnalyticsOutcomes == {"ok", "raises"}
StatusOutcomes == {"connected", "disconnected", "raises"}
TerminateOutcomes == {"truthy", "falsy", "raises"}

-----------------------------------------------------------------------------
(* Pure helpers *)

Digit(d) ==
    CASE d = 0 -> "0" [] d = 1 -> "1" [] d = 2 -> "2" [] d = 3 -> "3"
      [] d = 4 -> "4" [] d = 5 -> "5" [] d = 6 -> "6" [] d = 7 -> "7"
      [] d = 8 -> "8" [] d = 9 -> "9"

RECURSIVE IntToStr(_)
IntToStr(n) ==
    IF n < 0 THEN "-" \o IntToStr(-n)
    ELSE IF n < 10 THEN Digit(n)
    ELSE IntToStr(n \div 10) \o Digit(n % 10)

\* str(x) of a raw id value
Str(v) == IF v.kind = "str" THEN v.s ELSE IntToStr(v.n)

\* The emoji argument: the reaction that stands for the stream number.
Emoji(n) == IntToStr(n)

EmptyTable == <<>>

\* d[k] = v on a dict
Put(t, k, v) == [x \in (DOMAIN t) \cup {k} |-> IF x = k THEN v ELSE t[x]]

\* if data:
Truthy(d) == d.truthy

\* Session.is_transcoding (defined only when the decision field is present)
is_transcoding(s) == s.stream_container_decision.val = "transcode"

\* Activity.transcode_count raises KeyError when a session lacks the field
TranscodeKeyError(ss) ==
    \E i \in 1..Len(ss) : ss[i].stream_container_decision.st = "absent"

Max(a, b) == IF a >= b THEN a ELSE b

\* the count capped at one transcoding session
transcode_count_AtMostOne(ss) ==
    Max(0, IF \E i \in 1..Len(ss) : is_transcoding(ss[i]) THEN 1 ELSE 0)

\* Activity.transcode_count: max([0, [...].count(True)])
transcode_count(ss) ==
    Max(0, Cardinality({ i \in 1..Len(ss) : is_transcoding(ss[i]) }))

\* Activity.message raises KeyError: transcode_count is read only when the
\* reported stream count is positive.
MessageKeyError(d) == d.stream_count > 0 /\ TranscodeKeyError(d.sessions)

\* What Activity.message is built from.
Overview(d) ==
    [text |-> "",
     stream_count |-> d.stream_count,
     transcode_count |-> IF d.stream_count > 0 THEN transcode_count(d.sessions)
                         ELSE 0]

TautulliStreamInfo(s, n) == [session |-> s, session_number |-> n]

\* Session.title raises KeyError: self._data['title'] of a live stream or an
\* episode, self._data['media_type'] of a stream that is not live.
TitleKeyError(s) ==
    IF s.live THEN s.title.st = "absent"
    ELSE IF s.media_type.st = "absent" THEN TRUE
    ELSE IF s.media_type.val = "episode" THEN s.title.st = "absent"
    ELSE FALSE

\* Session.title where it returns; the optional grandparent_title,
\* parent_title and media_index are not in the records and take their
\* defaults: '' and ''.zfill(2) = '00'.
SessionTitle(s) ==
    IF s.live THEN " - " \o s.title.val
    ELSE IF s.media_type.val = "episode" THEN " - S00E00 - " \o s.title.val
    ELSE IF s.full_title.st = "ok" THEN s.full_title.val ELSE "None"

\* Session.type_icon raises KeyError: self._data['media_type'] is read first.
TypeIconKeyError(s) == s.media_type.st = "absent"

\* Session._session_title raises
SessionTitleRaises(s) == TypeIconKeyError(s) \/ TitleKeyError(s)

\* Session._session_title: the stream's emoji followed by the title
session_title(s, session_number) == Emoji(session_number) \o " " \o SessionTitle(s)

\* a title that lets the exception through
StreamTitle_NoCatch(info) ==
    IF SessionTitleRaises(info.session) THEN "KeyError"
    ELSE session_title(info.session, info.session_number)

\* TautulliStreamInfo.title: read when the response is rendered
StreamTitle(info) ==
    IF SessionTitleRaises(info.session) THEN "Unknown"
    ELSE session_title(info.session, info.session_number)

\* TautulliDataResponse.message / embed: the titles of the rendered streams
RenderedTitles(response) ==
    [i \in 1..Len(response.streams) |-> StreamTitle(response.streams[i])]

TautulliDataResponse(overview, streams, err) ==
    [overview_message |-> overview, streams |-> streams, error |-> err]

ConnectionLost ==
    [kind |-> "returned",
     response |-> TautulliDataResponse(
                     [text |-> "**Connection lost.**", stream_count |-> 0,
                      transcode_count |-> 0], <<>>, TRUE),
     count |-> 0, activity |-> FALSE, online |-> FALSE]

NoResponse == TautulliDataResponse(
                 [text |-> "", stream_count |-> 0, transcode_count |-> 0],
                 <<>>, FALSE)

NoResult == [kind |-> "none", response |-> NoResponse, count |-> 0,
             activity |-> FALSE, online |-> FALSE]

Raised == [kind |-> "raised", response |-> NoResponse, count |-> 0,
           activity |-> FALSE, online |-> FALSE]

Outcome(o, c) == [outcome |-> o, count |-> c]

-----------------------------------------------------------------------------
(* Derived properties of Session and Activity *)

\* A raw numeric field: missing from the record, null, a number, or a text
\* given as its characters.
NoField == [kind |-> "absent", n |-> 0, text |-> <<>>]
NoneValue == [kind |-> "none", n |-> 0, text |-> <<>>]
IntValue(n) == [kind |-> "int", n |-> n, text |-> <<>>]
TextValue(cs) == [kind |-> "str", n |-> 0, text |-> cs]

RawNumbers ==
    { NoField, NoneValue,
      IntValue(0), IntValue(50), IntValue(200), IntValue(450),
      IntValue(-50), IntValue(-200),
      TextValue(<<"2", "0", "0">>), TextValue(<<"-", "5", "0">>),
      TextValue(<<"1", "2", ".", "5">>), TextValue(<<>>) }

\* The fields of a raw session record that its progress is computed from.
RawTimes(duration, view_offset) ==
    [duration |-> duration, view_offset |-> view_offset]

Digits == {"0", "1", "2", "3", "4", "5", "6", "7", "8", "9"}

DigitValue(c) == CHOOSE d \in 0..9 : Digit(d) = c

Unsigned(cs) ==
    IF Len(cs) > 0 /\ cs[1] \in {"-", "+"} THEN Tail(cs) ELSE cs

\* int(text) succeeds: an optional sign and at least one digit
IsNumeral(cs) ==
    /\ Len(Unsigned(cs)) > 0
    /\ \A i \in 1..Len(Unsigned(cs)) : Unsigned(cs)[i] \in Digits

RECURSIVE DigitsValue(_)
DigitsValue(ds) ==
    IF ds = <<>> THEN 0
    ELSE 10 * DigitsValue(SubSeq(ds, 1, Len(ds) - 1)) + DigitValue(ds[Len(ds)])

\* int(text) of a numeral
ParseInt(cs) ==
    IF cs[1] = "-" THEN 0 - DigitsValue(Unsigned(cs)) ELSE DigitsValue(Unsigned(cs))

\* self._data.get(key, 0)
GetOrZero(v) == IF v.kind = "absent" THEN IntValue(0) ELSE v

\* try: value = int(value)  except: value = 0
IntOrZero(v) ==
    CASE v.kind = "int" -> v.n
      [] v.kind = "str" -> IF IsNumeral(v.text) THEN ParseInt(v.text) ELSE 0
      [] OTHER -> 0

\* Session.duration_milliseconds
duration_milliseconds(s) == IntOrZero(GetOrZero(s.duration))

\* Session.location_milliseconds
location_milliseconds(s) == IntOrZero(GetOrZero(s.view_offset))

Abs(a) == IF a < 0 THEN 0 - a ELSE a

\* int(a / b): the quotient, cut off towards zero
TruncDiv(a, b) ==
    LET q == Abs(a) \div Abs(b)
    IN IF (a < 0) # (b < 0) THEN 0 - q ELSE q

\* the floor of the quotient a / b
FloorDiv(a, b) ==
    LET q == TruncDiv(a, b)
    IN IF q * b # a /\ ((a < 0) # (b < 0)) THEN q - 1 ELSE q

progress_percentage_Floor(s) ==
    IF duration_milliseconds(s) = 0 THEN 0
    ELSE FloorDiv(location_milliseconds(s), duration_milliseconds(s))

\* Session.progress_percentage
progress_percentage(s) ==
    IF duration_milliseconds(s) = 0 THEN 0
    ELSE TruncDiv(location_milliseconds(s), duration_milliseconds(s))

\* A property waiting to be read, and the same property once read: its value,
\* or the exception its getter raised.
Probe(property, s, d) ==
    [property |-> property, session |-> s, payload |-> d,
     read |-> FALSE, raised |-> FALSE, value |-> 0]
Value(p, v) == [p EXCEPT !.read = TRUE, !.value = v]
KeyError(p) == [p EXCEPT !.read = TRUE, !.raised = TRUE]

NoProbe == Probe("none", RawTimes(NoField, NoField), NoData)

Probes ==
    { Probe("progress_percentage", RawTimes(d, o), NoData) :
        d \in RawNumbers, o \in RawNumbers }
    \cup { Probe("transcode_count", RawTimes(NoField, NoField), d) :
              d \in Payloads \ {NoData} }

\* reading session.progress_percentage
read_progress_percentage ==
    /\ probe.property = "progress_percentage"
    /\ ~probe.read
    /\ probe' = Value(probe, progress_percentage(probe.session))
    /\ UNCHANGED <<session_ids, pollvars, termvars>>

\* reading activity.transcode_count
read_transcode_count ==
    /\ probe.property = "transcode_count"
    /\ ~probe.read
    /\ probe' = IF TranscodeKeyError(probe.payload.sessions) THEN KeyError(probe)
                ELSE Value(probe, transcode_count(probe.payload.sessions))
    /\ UNCHANGED <<session_ids, pollvars, termvars>>

-----------------------------------------------------------------------------
\* The connector after construction, no call made yet.
Connector ==
    /\ session_ids = EmptyTable
    /\ pollpc = "idle"
    /\ data = NoData
    /\ idx = 0
    /\ count = 0
    /\ session_details = <<>>
    /\ result = NoResult
    /\ prevTable = EmptyTable
    /\ repeat = FALSE
    /\ lastPoll = Outcome("none", 0)
    /\ termpc = "idle"
    /\ stream_number = 0
    /\ termSeen = EmptyTable
    /\ request = [sent |-> FALSE, session_id |-> "", reply |-> ""]
    /\ termResult = [kind |-> "none", message |-> ""]

Init == Connector /\ probe = NoProbe


-----------------------------------------------------------------------------
(* refresh_data *)

\* count += 1
NextCount(c) == c + 1

\* session_ids = {}
ResetTable == EmptyTable

StoreId_ZeroBased(t, c, s) == Put(t, c - 1, Str(s.session_id.val))

\* session_ids[count] = str(session.id)
StoreId(t, c, s) == Put(t, c, Str(s.session_id.val))

AppendDetail_Front(details, s, c) == <<TautulliStreamInfo(s, c)>> \o details

\* session_details.append(TautulliStreamInfo(session=session, session_number=count))
AppendDetail(details, s, c) == Append(details, TautulliStreamInfo(s, c))

Complete(res, how) ==
    /\ pollpc' = "done"
    /\ result' = res
    /\ lastPoll' = how

\* except KeyError: _error_and_analytics(...), then the final return.
\* An exception of analytics.event leaves refresh_data.
KeyErrorHandler ==
    \E a \in AnalyticsOutcomes :
        IF a = "ok" THEN Complete(ConnectionLost, Outcome("keyerror", 0))
        ELSE Complete(Raised, Outcome("keyerror_analytics", 0))

\* data = self.api.activity(); if data: ... count = 0; session_ids = {};
\* session_details = [] -- or, for a falsy payload, the final return.
Fetched(d, again) ==
    /\ data' = d
    /\ prevTable' = session_ids
    /\ repeat' = again
    /\ idx' = 0
    /\ IF Truthy(d)
       THEN /\ count' = 0
            /\ session_ids' = ResetTable
            /\ session_details' = <<>>
            /\ pollpc' = "loop"
            /\ result' = NoResult
            /\ lastPoll' = Outcome("none", 0)
       ELSE /\ Complete(ConnectionLost, Outcome("empty", 0))
            /\ UNCHANGED <<count, session_ids, session_details>>
    /\ UNCHANGED termvars

\* A call of refresh_data: api.activity() returns a payload or raises.
refresh_data_call ==
    /\ pollpc = "idle"
    /\ UNCHANGED probe
    /\ \/ \E d \in Payloads : Fetched(d, FALSE)
       \/ /\ Complete(Raised, Outcome("transport", 0))
          /\ prevTable' = session_ids
          /\ UNCHANGED <<session_ids, data, idx, count, session_details, repeat>>
          /\ UNCHANGED termvars

\* The next call of refresh_data, made right after one that received a
\* payload, receives an identical payload.
refresh_data_again ==
    /\ pollpc = "done"
    /\ UNCHANGED probe
    /\ lastPoll.outcome # "transport"
    /\ Fetched(data, TRUE)

\* One iteration of: for session in sessions
refresh_data_loop ==
    /\ pollpc = "loop"
    /\ UNCHANGED probe
    /\ idx < Len(data.sessions)
    /\ LET s == data.sessions[idx + 1]
           c == NextCount(count)
       IN /\ idx' = idx + 1
          /\ count' = c
          /\ session_details' = AppendDetail(session_details, s, c)
          /\ CASE s.session_id.st = "ok" ->
                    /\ session_ids' = StoreId(session_ids, c, s)
                    /\ UNCHANGED <<pollpc, result, lastPoll>>
               [] s.session_id.st = "unreadable" ->
                    \* except ValueError: _error_and_analytics(...); pass
                    /\ UNCHANGED session_ids
                    /\ \E a \in AnalyticsOutcomes :
                         IF a = "ok" THEN UNCHANGED <<pollpc, result, lastPoll>>
                         ELSE Complete(Raised, Outcome("valueerror_analytics", 0))
               [] s.session_id.st = "absent" ->
                    /\ UNCHANGED session_ids
                    /\ KeyErrorHandler
    /\ UNCHANGED <<data, prevTable, repeat>>
    /\ UNCHANGED termvars

\* return TautulliDataResponse(overview_message=activity.message, ...), count,
\* activity, self.is_plex_server_online()
refresh_data_return ==
    /\ pollpc = "loop"
    /\ UNCHANGED probe
    /\ idx = Len(data.sessions)
    /\ IF MessageKeyError(data)
       THEN KeyErrorHandler
       ELSE \E st \in StatusOutcomes :
              IF st = "raises" THEN Complete(Raised, Outcome("status", 0))
              ELSE Complete(
                     [kind |-> "returned",
                      response |-> TautulliDataResponse(Overview(data),
                                                        session_details, FALSE),
                      count |-> count, activity |-> TRUE,
                      online |-> (st = "connected")],
                     Outcome("ok", count))
    /\ UNCHANGED <<session_ids, data, idx, count, session_details, prevTable, repeat>>
    /\ UNCHANGED termvars

\* The caller has taken the result; the locals are gone.
refresh_data_exit ==
    /\ pollpc = "done"
    /\ UNCHANGED probe
    /\ pollpc' = "idle"
    /\ data' = NoData
    /\ idx' = 0
    /\ count' = 0
    /\ session_details' = <<>>
    /\ result' = NoResult
    /\ repeat' = FALSE
    /\ UNCHANGED <<session_ids, prevTable, lastPoll>>
    /\ UNCHANGED termvars

-----------------------------------------------------------------------------
(* stop_stream *)

StreamNumbers == 1..(MaxSessions + 1)


InvalidMessage == "**Invalid stream number.**"
StoppedMessage(emoji) == "Stream " \o emoji \o " was stopped."
NotStoppedMessage(emoji) == "Stream " \o emoji \o " could not be stopped."
WrongMessage == "Something went wrong."

Returned(msg) == [kind |-> "returned", message |-> msg]
NoTermResult == [kind |-> "none", message |-> ""]
TermRaised == [kind |-> "raised", message |-> ""]
\* the exception of analytics.event leaves stop_stream
AnalyticsRaised == [kind |-> "raised", message |-> "analytics.event"]
NoRequest == [sent |-> FALSE, session_id |-> "", reply |-> ""]

\* stream_number not in session_ids.keys()
NotAKey(n, t) == n \notin DOMAIN t

\* terminate_session(session_id=session_ids[stream_number], ...)
LookupId(t, n) == t[n]

TableAfterStop_Remove(t, n) == [x \in (DOMAIN t) \ {n} |-> t[x]]

\* stop_stream only reads session_ids: no statement of it assigns the dict
\* or one of its items.
TableAfterStop(t, n) == t

\* except Exception: _error_and_analytics(...), then return "Something went
\* wrong."  An exception of analytics.event leaves stop_stream.
ExceptionHandler ==
    \E a \in AnalyticsOutcomes :
        termResult' = IF a = "ok" THEN Returned(WrongMessage) ELSE AnalyticsRaised

\* if stream_number not in session_ids.keys(): return "**Invalid stream number.**"
stop_stream_call ==
    /\ termpc = "idle"
    /\ UNCHANGED probe
    /\ \E n \in StreamNumbers :
         /\ stream_number' = n
         /\ termSeen' = session_ids
         /\ request' = NoRequest
         /\ IF NotAKey(n, session_ids)
            THEN /\ termpc' = "done"
                 /\ termResult' = Returned(InvalidMessage)
            ELSE /\ termpc' = "checked"
                 /\ termResult' = NoTermResult
    /\ UNCHANGED <<session_ids, pollvars>>

\* logging.info(f"... id {session_ids[stream_number]}"): outside the try, so a
\* missing key raises KeyError out of stop_stream.
stop_stream_log ==
    /\ termpc = "checked"
    /\ UNCHANGED probe
    /\ IF stream_number \in DOMAIN session_ids
       THEN /\ termpc' = "logged"
            /\ UNCHANGED termResult
       ELSE /\ termpc' = "done"
            /\ termResult' = TermRaised
    /\ UNCHANGED <<session_ids, pollvars, stream_number, termSeen, request>>

\* try: if self.api.terminate_session(...): ... else: ... except Exception: ...
stop_stream_terminate ==
    /\ termpc = "logged"
    /\ UNCHANGED probe
    /\ termpc' = "done"
    /\ IF stream_number \in DOMAIN session_ids
       THEN \E r \in TerminateOutcomes :
              /\ request' = [sent |-> TRUE,
                             session_id |-> LookupId(session_ids, stream_number),
                             reply |-> r]
              /\ CASE r = "truthy" ->
                        termResult' = Returned(StoppedMessage(Emoji(stream_number)))
                   [] r = "falsy" ->
                        termResult' = Returned(NotStoppedMessage(Emoji(stream_number)))
                   [] r = "raises" -> ExceptionHandler
       ELSE \* session_ids[stream_number] raises KeyError inside the try
            /\ UNCHANGED request
            /\ ExceptionHandler
    /\ session_ids' = TableAfterStop(session_ids, stream_number)
    /\ UNCHANGED <<pollvars, stream_number, termSeen>>

\* The caller has taken the message.
stop_stream_exit ==
    /\ termpc = "done"
    /\ UNCHANGED probe
    /\ termpc' = "idle"
    /\ stream_number' = 0
    /\ termSeen' = EmptyTable
    /\ request' = NoRequest
    /\ termResult' = NoTermResult
    /\ UNCHANGED <<session_ids, pollvars>>

-----------------------------------------------------------------------------
(* Specifications *)

\* Calls run one at a time: a handler is entered only when the other is not
\* running.
Next ==
    \/ (termpc = "idle" /\ refresh_data_call)
    \/ refresh_data_again
    \/ refresh_data_loop
    \/ refresh_data_return
    \/ refresh_data_exit
    \/ (pollpc = "idle" /\ stop_stream_call)
    \/ stop_stream_log
    \/ stop_stream_terminate
    \/ stop_stream_exit

Spec == Init /\ [][Next]_vars

\* A call that has completed hands its result to its caller at once: the
\* return does not touch session_ids, so no statement of the other handler
\* needs to be interleaved before it.
Returning == pollpc = "done" \/ termpc = "done"

\* A terminate command may run while a poll is in flight: the statements of
\* the two handlers interleave in every order.
NextConc ==
    \/ (~Returning /\ refresh_data_call)
    \/ (~Returning /\ refresh_data_loop)
    \/ (~Returning /\ refresh_data_return)
    \/ refresh_data_exit
    \/ (~Returning /\ stop_stream_call)
    \/ (~Returning /\ stop_stream_log)
    \/ (~Returning /\ stop_stream_terminate)
    \/ stop_stream_exit

SpecConc == Init /\ [][NextConc]_vars

\* The derived properties, each read once on an input of its own.
InitDerived == Connector /\ probe \in Probes
NextDerived == read_progress_percentage \/ read_transcode_count
SpecDerived == InitDerived /\ [][NextDerived]_vars

-----------------------------------------------------------------------------
(* Properties *)

\* The text of a raw session id, written out for the ids of SessionRecords.
IdText(v) == IF v.kind = "str" THEN v.s ELSE CASE v.n = 7 -> "7"

Readable(s) == s.session_id.st = "ok"
AllReadable(ss) == \A i \in 1..Len(ss) : Readable(ss[i])

\* {i -> id(s_i) : 1 <= i <= n}
PayloadOrderTable(ss) == [i \in 1..Len(ss) |-> IdText(ss[i].session_id.val)]

\* The poll that has just completed returned the success tuple.
PollSucceeded ==
    pollpc = "done" /\ result.kind = "returned" /\ ~result.response.error

\* C1: after a successful poll whose sessions all have a readable id, the
\* table maps 1..n to the session ids in payload order, whatever it held
\* when the poll began.
C1_TableIsPayloadOrder ==
    (PollSucceeded /\ AllReadable(data.sessions))
        => session_ids = PayloadOrderTable(data.sessions)

C1_Witness ==
    /\ PollSucceeded
    /\ AllReadable(data.sessions)
    /\ Len(data.sessions) = 2
    /\ session_ids = <<"7", "a">>
    /\ prevTable = <<"a", "7">>

\* C2: after a poll that ended in ConnectivityFailure (empty payload) the
\* table is empty, and terminate(1) is then rejected as an invalid index.
C2_EmptyAfterConnectivityFailure ==
    /\ (pollpc = "done" /\ lastPoll.outcome = "empty")
          => session_ids = EmptyTable
    /\ (termpc = "done" /\ stream_number = 1 /\ lastPoll.outcome = "empty")
          => termResult = Returned(InvalidMessage)

ReadableSessions(ss) == SelectSeq(ss, Readable)

\* C3: a successful poll with a session whose id cannot be read maps the
\* consecutive indices 1..k, without a gap, to the ids of the k sessions
\* that were indexed, in payload order.
C3_SkipLeavesNoGap ==
    (PollSucceeded /\ ~AllReadable(data.sessions))
        => session_ids = PayloadOrderTable(ReadableSessions(data.sessions))

\* C4: once a poll that hit a KeyError has completed, the table is empty.
C4_EmptyAfterConstructionError ==
    (pollpc = "done" /\ lastPoll.outcome = "keyerror")
        => session_ids = EmptyTable

Rejected == termResult = Returned(InvalidMessage)
Terminated == termResult = Returned(StoppedMessage(Emoji(stream_number)))
Denied == termResult = Returned(NotStoppedMessage(Emoji(stream_number)))
Failed == termResult = Returned(WrongMessage)

\* C5: terminate(index) is Rejected for an index that is no key of the table;
\* for a key it sends the mapped id and is Terminated on a truthy reply, Denied
\* on a falsy reply and Failed when the call raises; the four results differ.
C5_TerminateOutcomes ==
    termpc = "done" =>
        /\ stream_number \notin DOMAIN termSeen => (Rejected /\ ~request.sent)
        /\ stream_number \in DOMAIN termSeen =>
              /\ request.sent
              /\ request.session_id = termSeen[stream_number]
              /\ request.reply = "truthy" => Terminated
              /\ request.reply = "falsy" => Denied
              /\ request.reply = "raises" => Failed
        /\ Cardinality({InvalidMessage, StoppedMessage(Emoji(stream_number)),
                        NotStoppedMessage(Emoji(stream_number)),
                        WrongMessage}) = 4

\* C6: a terminate command leaves the table as it found it, on every outcome;
\* the index of a session it terminated stays mapped to that session's id.
C6_TerminateLeavesTable ==
    termpc # "idle" =>
        /\ session_ids = termSeen
        /\ request.sent =>
              /\ stream_number \in DOMAIN session_ids
              /\ session_ids[stream_number] = request.session_id

C6_Witness ==
    /\ termpc = "done"
    /\ Terminated
    /\ request.sent
    /\ session_ids = <<"a", "7">>
    /\ stream_number = 2

\* C7: a terminate command that tests its index while a poll is in flight
\* reads the complete table of the previous poll or the complete table of the
\* new poll.  Stated for payloads whose ids are all readable, where the
\* complete new table is PayloadOrderTable.
C7_AtomicReplacement ==
    [][(termpc = "idle" /\ termpc' # "idle" /\ pollpc = "loop"
            /\ AllReadable(data.sessions))
         => session_ids \in {prevTable, PayloadOrderTable(data.sessions)}]_vars

\* C8: after a successful poll no entry of an earlier poll survives, and
\* terminate(i) for an index i of the earlier table that exceeds the number of
\* sessions the poll indexed is Rejected without a termination request.
C8_StaleIndexRejected ==
    /\ PollSucceeded =>
          \A k \in DOMAIN session_ids :
              /\ k \in 1..Len(data.sessions)
              /\ Readable(data.sessions[k])
              /\ session_ids[k] = IdText(data.sessions[k].session_id.val)
    /\ (termpc = "done" /\ lastPoll.outcome = "ok"
            /\ stream_number \in DOMAIN prevTable
            /\ stream_number > Cardinality(DOMAIN termSeen))
          => (Rejected /\ ~request.sent)

\* C9: a poll that receives the payload of the poll before it leaves the
\* table as that poll left it.
C9_PollIdempotent ==
    (pollpc = "done" /\ repeat) => session_ids = prevTable

\* C10: after a successful poll, for every index N of the table the
\* descriptor at position N of the returned list is that of the session
\* whose id is table[N] and carries session number N.
C10_PositionMatchesIndex ==
    PollSucceeded =>
        \A N \in DOMAIN session_ids :
            /\ N \in 1..Len(result.response.streams)
            /\ result.response.streams[N].session_number = N
            /\ Readable(result.response.streams[N].session)
            /\ IdText(result.response.streams[N].session.session_id.val)
                 = session_ids[N]

C10_Witness ==
    /\ PollSucceeded
    /\ session_ids = <<"7", "a">>
    /\ Len(result.response.streams) = 2

\* C11: a failure of analytics.event never fails the operation that reports
\* an error: the poll goes on (ValueError) or returns the connection-lost
\* result (KeyError), terminate returns Failed, and no exception of
\* analytics.event reaches the caller.
C11_AnalyticsBestEffort ==
    /\ pollpc = "done" =>
          lastPoll.outcome \notin {"keyerror_analytics", "valueerror_analytics"}
    /\ termpc = "done" => termResult # AnalyticsRaised
    /\ (termpc = "done" /\ request.reply = "raises") => Failed

\* The record has no raw title or no media type.
LacksTitleField(s) == s.title.st = "absent" \/ s.media_type.st = "absent"

C13_PollNeverFailsFatally ==
    (pollpc = "done" /\ lastPoll.outcome \in {"transport", "status"})
        => /\ result = ConnectionLost
           /\ session_ids = EmptyTable

\* The sessions of a payload whose stream container decision is "transcode".
Transcoding(s) == s.stream_container_decision = Present("transcode")

\* C14: the transcode count of an activity is the number of its sessions
\* whose stream container decision is "transcode", whatever stream count the
\* payload reports, and it is never negative.
C14_TranscodeCount ==
    (probe.property = "transcode_count" /\ probe.read /\ ~probe.raised)
        => /\ probe.value = Len(SelectSeq(probe.payload.sessions, Transcoding))
           /\ probe.value >= 0

\* more sessions transcode than the payload reports streams
C14_Witness ==
    /\ probe.property = "transcode_count"
    /\ probe.read
    /\ probe.payload.stream_count = 1
    /\ Len(probe.payload.sessions) = 2
    /\ \A i \in 1..2 : Transcoding(probe.payload.sessions[i])
    /\ probe.value = 2

C16_SameFailureResult ==
    /\ (pollpc = "done" /\ lastPoll.outcome \in
            {"empty", "transport", "keyerror", "keyerror_analytics"})
          => result = ConnectionLost
    /\ (pollpc = "done" /\ lastPoll.outcome = "ok")
          => /\ ~result.response.error
             /\ result.response # ConnectionLost.response

\* C17: a terminate command resolves its stream number against one table:
\* the lookups that follow the membership test never raise for a missing key,
\* and the id sent to the API is the entry of the table the membership test
\* read.
C17_SingleTableLookup ==
    /\ termpc = "done" => termResult # TermRaised
    /\ (termpc = "done" /\ request.sent)
          => /\ stream_number \in DOMAIN termSeen
             /\ request.session_id = termSeen[stream_number]
    /\ (termpc = "done" /\ stream_number \in DOMAIN termSeen) => request.sent

\* C18: the count a successful poll returns is the number of entries of the
\* table it installed and the number of stream descriptors it returned, also
\* when a session was skipped; the count a failed poll returns is 0.
C18_CountMatchesTableAndStreams ==
    /\ PollSucceeded =>
          /\ result.count = Cardinality(DOMAIN session_ids)
          /\ result.count = Len(result.response.streams)
    /\ (pollpc = "done" /\ result.kind = "returned" /\ result.response.error)
          => result.count = 0

\* C19: every call that completes hands a result to its caller: a poll its
\* success or failure tuple, a terminate command one of the four messages,
\* under any interleaving of the two.
C19_CallsCompleteWithResult ==
    /\ pollpc = "done" => result.kind = "returned"
    /\ termpc = "done" => Rejected \/ Terminated \/ Denied \/ Failed

=============================================================================
